---- MODULE Spec2Model ----
\* A model of the Hacker News scraper: the numeric-prefix parse and the row
\* accessors of src/src/athing.rs, Post::try_from, fetch_posts and main of
\* src/src/main.rs.
\*
\* Text is a sequence of characters. An ASCII character is written as itself
\* ("a", "7", "."); a character that takes more than one byte in UTF-8 is
\* written by name ("eacute", "sup2", "nbsp", "euro"). Rust strings are UTF-8
\* and String::truncate and str slicing count bytes, so the byte width of each
\* character is part of the model.
EXTENDS Integers, Sequences, FiniteSets, TLC

VARIABLES
    n,          \* main: the clamped number of posts asked for
    pc,         \* where the program is: "main", "pull", "collect", "returned", "done", "panicked"
    page_num,   \* fetch_posts: the last value drawn from (1..)
    page,       \* fetch_posts: the document of the page being processed
    row_idx,    \* flat_map closure: story rows of `page` already given to try_from
    vec,        \* flat_map closure: the Vec being collected for `page`
    frontiter,  \* FlatMap: posts of the current page not yet pulled by take(n)
    out,        \* the Vec that take(n).collect() is building
    yielded,    \* every post the flat_map produced so far, in order (history)
    stdout,     \* what main wrote to standard output
    panic,      \* the panic that ended the process, if any
    caller,     \* who called fetch_posts: "main" or "test"; "none" before the call
    call,       \* PureSpec: the function applied and its argument
    ret         \* PureSpec: what the call returned

vars == <<n, pc, page_num, page, row_idx, vec, frontiter, out, yielded, stdout, panic, caller, call, ret>>

-----------------------------------------------------------------------------
\* Option / unwinding results

Some(v) == [tag |-> "Some", val |-> v]
None == [tag |-> "None"]
Panic(m) == [tag |-> "Panic", msg |-> m]

-----------------------------------------------------------------------------
\* Characters and strings

AsciiDigit == {"0", "1", "2", "3", "4", "5", "6", "7", "8", "9"}

\* char::len_utf8
Width(c) ==
    CASE c = "eacute" -> 2
      [] c = "sup2"   -> 2
      [] c = "nbsp"   -> 2
      [] c = "euro"   -> 3
      [] OTHER        -> 1

\* char::is_numeric: Unicode categories Nd, Nl and No; "sup2" is U+00B2 (No)
is_numeric(c) == c \in AsciiDigit \cup {"sup2"}

DigitVal(c) ==
    CASE c = "0" -> 0 [] c = "1" -> 1 [] c = "2" -> 2 [] c = "3" -> 3
      [] c = "4" -> 4 [] c = "5" -> 5 [] c = "6" -> 6 [] c = "7" -> 7
      [] c = "8" -> 8 [] c = "9" -> 9

\* the byte offset just after the first k characters of s: the sum of their
\* widths, each between 1 and 4
ByteLenTo(s, k) ==
    k + Cardinality({i \in 1..k : Width(s[i]) > 1})
      + Cardinality({i \in 1..k : Width(s[i]) > 2})
      + Cardinality({i \in 1..k : Width(s[i]) > 3})

\* str::len
ByteLen(s) == ByteLenTo(s, Len(s))

\* the largest k in lo..hi such that the first k characters of s take at most
\* b bytes, given that the first lo do
RECURSIVE CharsWithin(_, _, _, _)
CharsWithin(s, b, lo, hi) ==
    IF lo = hi THEN lo
    ELSE LET mid == (lo + hi + 1) \div 2
         IN  IF ByteLenTo(s, mid) <= b
             THEN CharsWithin(s, b, mid, hi)
             ELSE CharsWithin(s, b, lo, mid - 1)

\* str::is_char_boundary: byte offset b is the start of a character or the end of s
IsCharBoundary(s, b) ==
    /\ b <= ByteLen(s)
    /\ ByteLenTo(s, CharsWithin(s, b, 0, Len(s))) = b

\* String::truncate(new_len): no effect when new_len is beyond the string,
\* panics when new_len is not on a char boundary
String_truncate(s, new_len) ==
    IF new_len <= ByteLen(s)
    THEN IF IsCharBoundary(s, new_len)
         THEN Some(SubSeq(s, 1, CharsWithin(s, new_len, 0, Len(s))))
         ELSE Panic("assertion failed: self.is_char_boundary(new_len)")
    ELSE Some(s)

\* chars().take_while(|c| c.is_numeric()).count(): the number of leading
\* numeric characters of s
NumericRun(s) ==
    CHOOSE k \in 0..Len(s) :
        /\ \A i \in 1..k : is_numeric(s[i])
        /\ k = Len(s) \/ ~is_numeric(s[k + 1])

RECURSIVE DecimalValue(_)
DecimalValue(ds) ==
    IF ds = <<>> THEN 0
    ELSE 10 * DecimalValue(SubSeq(ds, 1, Len(ds) - 1)) + DigitVal(ds[Len(ds)])

RECURSIVE StripZeros(_)
StripZeros(ds) == IF ds # <<>> /\ ds[1] = "0" THEN StripZeros(Tail(ds)) ELSE ds

\* usize::MAX on a 64-bit target, 18446744073709551615, digit by digit
UsizeMaxDigits ==
    <<"1", "8", "4", "4", "6", "7", "4", "4", "0", "7",
      "3", "7", "0", "9", "5", "5", "1", "6", "1", "5">>

\* ds, a digit string without leading zeros, denotes more than usize::MAX
ExceedsUsize(ds) ==
    \/ Len(ds) > Len(UsizeMaxDigits)
    \/ /\ Len(ds) = Len(UsizeMaxDigits)
       /\ \E i \in 1..Len(ds) :
            /\ \A j \in 1..(i - 1) : ds[j] = UsizeMaxDigits[j]
            /\ DigitVal(ds[i]) > DigitVal(UsizeMaxDigits[i])

\* str::parse::<usize>().ok() on a slice that starts with a numeric character:
\* an error (here None) on any character that is not an ASCII digit and on
\* overflow of usize
parse_usize(s) ==
    IF s = <<>> \/ \E i \in 1..Len(s) : s[i] \notin AsciiDigit THEN None
    ELSE IF ExceedsUsize(StripZeros(s)) THEN None
    ELSE Some(DecimalValue(s))

-----------------------------------------------------------------------------
\* src/src/athing.rs
\*
\* An element that is parsed as a number is [first_text |-> t]: t is Some(text)
\* when its first child is a text node and None otherwise. A node of a page is
\*   [name, athing, storylink, rank, hnuser, score, anchors]
\* name is the tag name ("tr" or "#text"), athing says that it has the class,
\* storylink is the first descendant of class storylink (href and text), rank
\* and score the first descendants of those classes, hnuser the text of the
\* first descendant of class hnuser, anchors the <a> descendants in document
\* order. A page is the sequence of the sibling nodes of its listing table.

NodeExt_extract_number_prefix(node) ==
    IF node.first_text.tag = "None" THEN None
    ELSE LET text == node.first_text.val
             run == NumericRun(text)
         IN  IF run = 0 THEN None
             ELSE LET end == ByteLenTo(text, run - 1)
                  IN  IF ~IsCharBoundary(text, end + 1)
                      THEN Panic("byte index is not a char boundary")
                      ELSE parse_usize(SubSeq(text, 1, run))

\* uri and title the wrong way round
AThing_uri_and_title_swapped(tr) ==
    IF tr.storylink.tag = "None" THEN None
    ELSE IF tr.storylink.val.href.tag = "None" THEN None
    ELSE Some([uri |-> tr.storylink.val.text, title |-> tr.storylink.val.href.val])

AThing_uri_and_title(tr) ==
    IF tr.storylink.tag = "None" THEN None
    ELSE IF tr.storylink.val.href.tag = "None" THEN None
    ELSE Some([uri |-> tr.storylink.val.href.val, title |-> tr.storylink.val.text])

AThing_rank(tr) ==
    IF tr.rank.tag = "None" THEN None
    ELSE NodeExt_extract_number_prefix(tr.rank.val)

\* the first later sibling of node i of doc whose name is tr
AThing_line2(doc, i) ==
    IF \E j \in (i + 1)..Len(doc) : doc[j].name = "tr"
    THEN Some(doc[CHOOSE j \in (i + 1)..Len(doc) :
                    /\ doc[j].name = "tr"
                    /\ \A k \in (i + 1)..(j - 1) : doc[k].name # "tr"])
    ELSE None

AThingLine2_author(tr) == tr.hnuser

AThingLine2_points(tr) ==
    IF tr.score.tag = "None" THEN None
    ELSE NodeExt_extract_number_prefix(tr.score.val)

AThingLine2_comments(tr) ==
    IF tr.anchors = <<>> THEN None
    ELSE NodeExt_extract_number_prefix(tr.anchors[Len(tr.anchors)])

-----------------------------------------------------------------------------
\* src/src/main.rs

MAX_POSTS == 100

\* the length title and author are truncated to
TRUNCATE_LEN == 256

\* Post::try_from after the story link was found: Some(post), None (the row
\* is dropped) or a panic. The steps are in the order the code takes them:
\* line2()?, title.truncate, rank()?, author, points, comments.
Post_from_link(doc, i, ut) ==
    LET l2 == AThing_line2(doc, i) IN
    IF l2.tag = "None" THEN None
    ELSE
    LET line2 == l2.val
        title == String_truncate(ut.title, TRUNCATE_LEN)
    IN
    IF title.tag = "Panic" THEN title
    ELSE
    LET rank == AThing_rank(doc[i]) IN
    IF rank.tag # "Some" THEN rank
    ELSE
    LET a == AThingLine2_author(line2)
        author == IF a.tag = "None" THEN None ELSE String_truncate(a.val, TRUNCATE_LEN)
    IN
    IF author.tag = "Panic" THEN author
    ELSE
    LET points == AThingLine2_points(line2) IN
    IF points.tag = "Panic" THEN points
    ELSE
    LET comments == AThingLine2_comments(line2) IN
    IF comments.tag = "Panic" THEN comments
    ELSE Some([title    |-> title.val,
               uri      |-> ut.uri,
               rank     |-> rank.val,
               author   |-> author,
               points   |-> points,
               comments |-> comments])

\* a try_from that drops a row without story link instead of panicking
Post_try_from_dropping(doc, i) ==
    LET ut == AThing_uri_and_title(doc[i]) IN
    IF ut.tag = "None" THEN None ELSE Post_from_link(doc, i, ut.val)

\* Post::try_from on story row i of doc; expect("uri + title") comes first
Post_try_from(doc, i) ==
    LET ut == AThing_uri_and_title(doc[i]) IN
    IF ut.tag = "None" THEN Panic("uri + title") ELSE Post_from_link(doc, i, ut.val)

\* #[derive(Serialize)] for Post: the keys of the JSON object with their
\* values, in field order; skip_serializing_if drops a field that is None
Post_serialize(p) ==
    <<  <<"title", p.title>>, <<"uri", p.uri>>, <<"rank", p.rank>>  >>
    \o (IF p.author.tag = "None" THEN <<>> ELSE << <<"author", p.author.val>> >>)
    \o (IF p.points.tag = "None" THEN <<>> ELSE << <<"points", p.points.val>> >>)
    \o (IF p.comments.tag = "None" THEN <<>> ELSE << <<"comments", p.comments.val>> >>)

\* page.find(Name("tr").and(Class("athing"))): the story rows, in document order
find_athings(doc) ==
    SelectSeq([i \in 1..Len(doc) |-> i],
              LAMBDA i : doc[i].name = "tr" /\ doc[i].athing)

-----------------------------------------------------------------------------
\* Bounds

\* the largest post count given on the command line
MaxReq == 3

\* the largest page number the transport is asked for
MaxPage == 3

\* the longest text of the exhaustive inputs of the numeric-prefix parse
MaxTextLen == 3

-----------------------------------------------------------------------------
\* Input documents

Pad(k, c) == [i \in 1..k |-> c]

Elem(t) == [first_text |-> Some(t)]

ElemNoText == [first_text |-> None]

Link(t) == Some([href |-> Some(<<"u">>), text |-> t])

LinkNoHref(t) == Some([href |-> None, text |-> t])

TextNode ==
    [name |-> "#text", athing |-> FALSE, storylink |-> None, rank |-> None,
     hnuser |-> None, score |-> None, anchors |-> <<>>]

\* <tr class='athing'> with the story link sl and the rank element rk; the
\* story link is the last <a> of the row
StoryRow(sl, rk) ==
    [name |-> "tr", athing |-> TRUE, storylink |-> sl, rank |-> rk,
     hnuser |-> None, score |-> None,
     anchors |-> IF sl.tag = "None" THEN <<>> ELSE <<Elem(sl.val.text)>>]

\* the <tr> after a story row: author hn, score element sc, anchors as
MetaRow(hn, sc, as) ==
    [name |-> "tr", athing |-> FALSE, storylink |-> None, rank |-> None,
     hnuser |-> hn, score |-> sc, anchors |-> as]

T_points == <<"8", "2", " ", "p", "o", "i", "n", "t", "s">>
T_comments == <<"1", "4", "nbsp", "c", "o", "m", "m", "e", "n", "t", "s">>
T_discuss == <<"d", "i", "s", "c", "u", "s", "s">>
T_hide == <<"h", "i", "d", "e">>
T_ago == <<"1", " ", "h", "o", "u", "r", " ", "a", "g", "o">>

FullMeta ==
    MetaRow(Some(<<"b", "o", "b">>), Some(Elem(T_points)),
            <<Elem(T_ago), Elem(T_hide), Elem(T_comments)>>)

\* the metadata row of a hiring post: no author, no score, no anchor
HiringMeta == MetaRow(None, None, <<>>)

\* 256 characters in 257 bytes: byte 256 is inside the last character
UnsafeText == Pad(TRUNCATE_LEN - 1, "a") \o <<"eacute">>

Ranked(t, r) == StoryRow(Link(t), Some(Elem(r)))

\* the pages the transport may answer with
PageSamples ==
    { <<>>,
      <<Ranked(<<"A">>, <<"1", ".">>), FullMeta, Ranked(<<"B">>, <<"2", ".">>), FullMeta>>,
      <<Ranked(<<"C">>, <<"3", ".">>), FullMeta, Ranked(<<"D">>, <<"4", ".">>), FullMeta>>,
      <<Ranked(<<"H">>, <<"2", "2", ".">>), TextNode, HiringMeta>>,
      <<Ranked(<<"E">>, <<"5", ".">>), FullMeta, TextNode, Ranked(<<"F">>, <<"6", ".">>), TextNode>>,
      <<StoryRow(Link(<<"G">>), None), FullMeta, Ranked(<<"I">>, <<"7", ".">>), FullMeta>>,
      <<StoryRow(Link(<<"J">>), Some(Elem(<<".">>))), FullMeta>>,
      <<StoryRow(None, None)>>,
      <<Ranked(<<"K">>, <<"8", ".">>), FullMeta, StoryRow(LinkNoHref(<<"L">>), Some(Elem(<<"9", ".">>))), FullMeta>>,
      <<StoryRow(Link(UnsafeText), None), FullMeta>>,
      <<StoryRow(Link(<<"M">>), Some(Elem(<<"sup2", ".">>))), FullMeta>>
    }

-----------------------------------------------------------------------------
\* main and fetch_posts

Min(a, b) == IF a <= b THEN a ELSE b

Init ==
    /\ n = 0
    /\ pc = "main"
    /\ page_num = 0
    /\ page = <<>>
    /\ row_idx = 0
    /\ vec = <<>>
    /\ frontiter = <<>>
    /\ out = <<>>
    /\ yielded = <<>>
    /\ stdout = None
    /\ panic = None
    /\ caller = "none"
    /\ call = [fn |-> "none"]
    /\ ret = None

\* main: the post count of the command line (counts above MaxReq and the
\* default of 30 are not drawn) clamped to MAX_POSTS; for 0 it prints [] and
\* returns, otherwise it calls fetch_posts(n)
Main ==
    /\ pc = "main"
    /\ \E req \in 0..MaxReq :
        /\ n' = Min(req, MAX_POSTS)
        /\ IF n' = 0
           THEN pc' = "done" /\ stdout' = Some(<<>>) /\ caller' = caller
           ELSE pc' = "pull" /\ stdout' = stdout /\ caller' = "main"
    /\ UNCHANGED <<page_num, page, row_idx, vec, frontiter, out, yielded, panic, call, ret>>

\* a test calls fetch_posts(k) itself, as fetch_top_3 does
TestCall ==
    /\ pc = "main"
    /\ \E k \in 0..MaxReq : n' = k
    /\ pc' = "pull"
    /\ caller' = "test"
    /\ UNCHANGED <<page_num, page, row_idx, vec, frontiter, out, yielded, stdout, panic, call, ret>>

\* a pull that does not stop at n
PullingEager == pc = "pull"

\* Take::next asks the FlatMap for an element while fewer than n were taken
Pulling == pc = "pull" /\ Len(out) < n

\* a take that pulls the posts of a page from the back
TakeItemFromBack ==
    /\ Pulling
    /\ frontiter # <<>>
    /\ out' = Append(out, frontiter[Len(frontiter)])
    /\ frontiter' = SubSeq(frontiter, 1, Len(frontiter) - 1)
    /\ UNCHANGED <<n, pc, page_num, page, row_idx, vec, yielded, stdout, panic, caller, call, ret>>

\* FlatMap::next with a post left in the current page's Vec
TakeItem ==
    /\ Pulling
    /\ frontiter # <<>>
    /\ out' = Append(out, Head(frontiter))
    /\ frontiter' = Tail(frontiter)
    /\ UNCHANGED <<n, pc, page_num, page, row_idx, vec, yielded, stdout, panic, caller, call, ret>>

\* the map closure got Ok(doc) for page k
Fetched(k, doc) ==
    /\ page_num' = k
    /\ page' = doc
    /\ row_idx' = 0
    /\ vec' = <<>>
    /\ pc' = "collect"
    /\ UNCHANGED <<n, frontiter, out, yielded, stdout, panic, caller, call, ret>>

\* a failed fetch that reports the error and writes the posts it has
FetchFailedPartial(k) ==
    /\ page_num' = k
    /\ pc' = "done"
    /\ panic' = Some([msg |-> "Failed to fetch page", page |-> k])
    /\ stdout' = Some([i \in 1..Len(out) |-> Post_serialize(out[i])])
    /\ UNCHANGED <<n, page, row_idx, vec, frontiter, out, yielded, caller, call, ret>>

\* the map closure got Err for page k: unwrap_or_else panics
FetchFailed(k) ==
    /\ page_num' = k
    /\ pc' = "panicked"
    /\ panic' = Some([msg |-> "Failed to fetch page", page |-> k])
    /\ UNCHANGED <<n, page, row_idx, vec, frontiter, out, yielded, stdout, caller, call, ret>>

\* FlatMap::next with the current page's Vec used up: the next page is fetched
FetchOk ==
    /\ Pulling
    /\ frontiter = <<>>
    /\ page_num < MaxPage
    /\ \E doc \in PageSamples : Fetched(page_num + 1, doc)

FetchErr ==
    /\ Pulling
    /\ frontiter = <<>>
    /\ page_num < MaxPage
    /\ FetchFailed(page_num + 1)

\* Post::try_from on every node of every input page
try_from_table ==
    [doc \in PageSamples |-> [i \in 1..Len(doc) |-> Post_try_from(doc, i)]]

\* the flat_map closure gives the next story row of the page to Post::try_from;
\* a panic unwinds out of fetch_posts, filter_map keeps the post of a row that
\* yields one
ProcessRow ==
    /\ pc = "collect"
    /\ row_idx < Len(find_athings(page))
    /\ LET r == try_from_table[page][find_athings(page)[row_idx + 1]] IN
        IF r.tag = "Panic"
        THEN /\ pc' = "panicked"
             /\ panic' = Some([msg |-> r.msg, page |-> page_num])
             /\ UNCHANGED <<row_idx, vec>>
        ELSE /\ row_idx' = row_idx + 1
             /\ vec' = IF r.tag = "Some" THEN Append(vec, r.val) ELSE vec
             /\ UNCHANGED <<pc, panic>>
    /\ UNCHANGED <<n, page_num, page, frontiter, out, yielded, stdout, caller, call, ret>>

\* a collect whose Vec is thrown away
CollectDoneDiscard ==
    /\ pc = "collect"
    /\ row_idx = Len(find_athings(page))
    /\ frontiter' = <<>>
    /\ vec' = <<>>
    /\ pc' = "pull"
    /\ UNCHANGED <<n, page_num, page, row_idx, out, yielded, stdout, panic, caller, call, ret>>

\* collect::<Vec<_>>() is complete: the Vec becomes the FlatMap's front iterator
CollectDone ==
    /\ pc = "collect"
    /\ row_idx = Len(find_athings(page))
    /\ frontiter' = vec
    /\ yielded' = yielded \o vec
    /\ vec' = <<>>
    /\ pc' = "pull"
    /\ UNCHANGED <<n, page_num, page, row_idx, out, stdout, panic, caller, call, ret>>

\* take(n) is used up: collect() is complete and fetch_posts returns `out`
Return ==
    /\ pc = "pull"
    /\ Len(out) = n
    /\ pc' = "returned"
    /\ UNCHANGED <<n, page_num, page, row_idx, vec, frontiter, out, yielded, stdout, panic, caller, call, ret>>

\* main writes the posts that fetch_posts returned to stdout as JSON
WriteJson ==
    /\ pc = "returned"
    /\ caller = "main"
    /\ stdout' = Some([i \in 1..Len(out) |-> Post_serialize(out[i])])
    /\ pc' = "done"
    /\ UNCHANGED <<n, page_num, page, row_idx, vec, frontiter, out, yielded, panic, caller, call, ret>>

Next ==
    \/ Main
    \/ TestCall
    \/ TakeItem
    \/ FetchOk
    \/ FetchErr
    \/ ProcessRow
    \/ CollectDone
    \/ Return
    \/ WriteJson

Spec == Init /\ [][Next]_vars

-----------------------------------------------------------------------------
\* The unbounded run of fetch_posts. The page counter of the code has no
\* bound; here page_num = MaxPage stands for every page from MaxPage on, so
\* that a run that fetches pages without end is a cycle of the model.

FetchOkLive ==
    /\ Pulling
    /\ frontiter = <<>>
    /\ \E doc \in PageSamples : Fetched(Min(page_num + 1, MaxPage), doc)

FetchErrLive ==
    /\ Pulling
    /\ frontiter = <<>>
    /\ FetchFailed(Min(page_num + 1, MaxPage))

NextLive ==
    \/ Main
    \/ TestCall
    \/ TakeItem
    \/ FetchOkLive
    \/ FetchErrLive
    \/ ProcessRow
    \/ CollectDone
    \/ Return
    \/ WriteJson

\* the program is one thread that runs until it returns or panics, and the
\* transport answers every request
LiveSpec == Init /\ [][NextLive]_vars /\ WF_vars(NextLive)

-----------------------------------------------------------------------------
\* The functions on their own: one call of extract_number_prefix or of
\* Post::try_from on an input drawn from a bounded set

RECURSIVE SeqsUpTo(_, _)
SeqsUpTo(S, k) ==
    IF k = 0 THEN {<<>>}
    ELSE LET shorter == SeqsUpTo(S, k - 1)
         IN  shorter \cup {Append(t, c) : t \in shorter, c \in S}

TextAlphabet == {"0", "2", "7", ".", "nbsp", "sup2"}

\* more digits than usize::MAX has
T_huge == Pad(Len(UsizeMaxDigits) + 1, "9")

Texts == SeqsUpTo(TextAlphabet, MaxTextLen) \cup {T_points, T_comments, T_discuss, T_hide, T_huge}

NumberElems == {ElemNoText} \cup {Elem(t) : t \in Texts}

TitleSamples ==
    { <<"A">>,
      <<"2", "0", "1", "9", " ", "i", "n", " ", "r", "e", "v", "i", "e", "w">>,
      Pad(TRUNCATE_LEN, "a"),
      Pad(TRUNCATE_LEN + 1, "a"),
      UnsafeText,
      Pad(TRUNCATE_LEN - 56, "eacute"),
      Pad(TRUNCATE_LEN - 2, "a") \o <<"euro", "b">> }

StoryLinks == {None, LinkNoHref(<<"A">>)} \cup {Link(t) : t \in TitleSamples}

RankElems ==
    {None, Some(ElemNoText)}
    \cup {Some(Elem(t)) : t \in {<<"2", "2", ".">>, <<"0", "0", "7">>, <<".">>,
                                 <<"sup2">>, <<"1", "sup2", "3">>, T_huge}}

MetaRows ==
    { MetaRow(hn, sc, as) :
        hn \in {None, Some(<<"b", "o", "b">>), Some(Pad(TRUNCATE_LEN + 1, "a")), Some(UnsafeText)},
        sc \in {None, Some(ElemNoText), Some(Elem(T_points))},
        as \in {<<>>, <<Elem(T_ago), Elem(T_hide)>>, <<Elem(T_hide), Elem(T_comments)>>,
                <<Elem(T_hide), Elem(T_discuss)>>} }

\* what follows the story row among its siblings
Followers ==
    {<<>>, <<TextNode>>, <<TextNode, FullMeta>>, <<Ranked(<<"9", " ", "t", "o", " ", "5">>, <<"2", ".">>)>>}
    \cup {<<m>> : m \in MetaRows}

Calls ==
    {[fn |-> "extract_number_prefix", arg |-> e] : e \in NumberElems}
    \cup {[fn |-> "try_from", arg |-> <<StoryRow(sl, rk)>> \o f] :
            sl \in StoryLinks, rk \in RankElems, f \in Followers}

Pending == [tag |-> "Pending"]

PureInit ==
    /\ n = 0
    /\ pc = "main"
    /\ page_num = 0
    /\ page = <<>>
    /\ row_idx = 0
    /\ vec = <<>>
    /\ frontiter = <<>>
    /\ out = <<>>
    /\ yielded = <<>>
    /\ stdout = None
    /\ panic = None
    /\ caller = "none"
    /\ call \in Calls
    /\ ret = Pending

CallExtractNumberPrefix ==
    /\ call.fn = "extract_number_prefix"
    /\ ret = Pending
    /\ ret' = NodeExt_extract_number_prefix(call.arg)
    /\ UNCHANGED <<n, pc, page_num, page, row_idx, vec, frontiter, out, yielded, stdout, panic, caller, call>>

CallTryFrom ==
    /\ call.fn = "try_from"
    /\ ret = Pending
    /\ ret' = Post_try_from(call.arg, 1)
    /\ UNCHANGED <<n, pc, page_num, page, row_idx, vec, frontiter, out, yielded, stdout, panic, caller, call>>

PureNext ==
    \/ CallExtractNumberPrefix
    \/ CallTryFrom

PureSpec == PureInit /\ [][PureNext]_vars

-----------------------------------------------------------------------------
\* Properties of fetch_posts (Spec)

\* fetch_posts has returned
HasReturned == pc = "returned" \/ (pc = "done" /\ caller = "main")

Terminated == pc \in {"returned", "done", "panicked"}

\* the posts of the story rows of doc that yield one, in document order
PagePosts(doc) ==
    LET idx == find_athings(doc)
        keep == SelectSeq([j \in 1..Len(idx) |-> j],
                          LAMBDA j : Post_try_from(doc, idx[j]).tag = "Some")
    IN  [j \in 1..Len(keep) |-> Post_try_from(doc, idx[keep[j]]).val]

Ranks(posts) == [i \in 1..Len(posts) |-> posts[i].rank]

\* the story row that ProcessRow is about to give to try_from
RowPending == pc = "collect" /\ row_idx < Len(find_athings(page))

PendingIndex == find_athings(page)[row_idx + 1]

PendingRow == page[PendingIndex]

HasLinkWithTarget(tr) ==
    tr.storylink.tag = "Some" /\ tr.storylink.val.href.tag = "Some"

HasLaterTr(doc, i) == \E j \in (i + 1)..Len(doc) : doc[j].name = "tr"

\* C1: when fetch_posts(n) returns for n >= 1, its result has exactly n posts
\* and is the first n of the posts yielded so far, which are the posts of the
\* pages in page order and, within a page, in document order; when the yielded
\* posts are ranked 1, 2, 3, ... the result's ranks are 1..n.
C1_ResultIsFirstN ==
    /\ (pc \in {"pull", "returned", "done"} /\ page_num >= 1) =>
          /\ Len(yielded) >= Len(PagePosts(page))
          /\ SubSeq(yielded, Len(yielded) - Len(PagePosts(page)) + 1, Len(yielded))
                = PagePosts(page)
    /\ (HasReturned /\ n >= 1) =>
          /\ Len(out) = n
          /\ Len(yielded) >= n
          /\ out = SubSeq(yielded, 1, n)
          /\ (pc = "done" => stdout = Some([i \in 1..n |-> Post_serialize(yielded[i])]))
          /\ (Ranks(yielded) = [i \in 1..Len(yielded) |-> i]) =>
                Ranks(out) = [i \in 1..n |-> i]

\* a call that spans two pages, overshoots in the second and is trimmed
C1_Witness ==
    /\ HasReturned
    /\ n = 3
    /\ page_num = 2
    /\ Len(yielded) = 4
    /\ Ranks(out) = <<1, 2, 3>>

FetchPanic == panic.tag = "Some" /\ panic.val.msg = "Failed to fetch page"

\* C2: a failed page fetch ends the process in a panic that names the page
\* asked for; nothing is written to the output, and after the panic nothing
\* happens any more (no retry, no later page).
C2_FetchFailureIsFatal ==
    /\ [](FetchPanic => pc = "panicked" /\ stdout = None /\ panic.val.page = page_num)
    /\ [][pc = "panicked" => UNCHANGED vars]_vars

\* the fetch of a later page failed after posts were assembled and taken
C2_Witness ==
    /\ FetchPanic
    /\ page_num >= 2
    /\ out # <<>>
    /\ stdout = None

\* a step in which a page is asked of the transport
IsFetchStep == pc = "pull" /\ pc' \in {"collect", "panicked"}

\* C3: every fetch asks for the page after the last one; a page is asked for
\* only when every story row of the page before was processed, its posts were
\* all pulled, and the pages so far yielded fewer than n posts; the page
\* number changes in no other step; with n = 0 no page is fetched and the
\* output is the empty array.
C3_PagesInOrder ==
    /\ [][IsFetchStep =>
            /\ page_num' = page_num + 1
            /\ row_idx = Len(find_athings(page))
            /\ frontiter = <<>>
            /\ Len(yielded) < n]_vars
    /\ [][page_num' # page_num => IsFetchStep]_vars
    /\ [](n = 0 => /\ page_num = 0
                    /\ (pc = "returned" => out = <<>>)
                    /\ (pc = "done" => stdout = Some(<<>>)))

\* page 2 is being processed because page 1 yielded fewer posts than asked for
C3_Witness ==
    /\ pc = "collect"
    /\ page_num = 2
    /\ yielded # <<>>
    /\ Len(yielded) < n

\* C5 (as claimed): a story row with a story link (that has a link target),
\* and with no later sibling <tr> or no rank that parses to a number, is
\* dropped without error: processing goes on with the next row and the row
\* adds no post.
C5_RowIsDropped ==
    [][(/\ RowPending
        /\ HasLinkWithTarget(PendingRow)
        /\ \/ ~HasLaterTr(page, PendingIndex)
           \/ AThing_rank(PendingRow).tag # "Some")
       => /\ pc' = "collect"
          /\ row_idx' = row_idx + 1
          /\ vec' = vec
          /\ panic' = None]_vars

-----------------------------------------------------------------------------
\* Termination of fetch_posts (LiveSpec)

\* a page whose story rows yielded no post has been processed
ZeroYieldPage == pc = "collect" /\ pc' = "pull" /\ vec = <<>>

\* C9 (as claimed): a started fetch_posts(n) eventually returns or panics.
C9_AlwaysTerminates == (pc = "pull") ~> Terminated

\* C9 (amended): a started fetch_posts(n) eventually returns or panics unless
\* pages that yield no post are fetched again and again without end.
C9_TerminatesUnlessEmptyPages ==
    ([]<><<ZeroYieldPage>>_vars) \/ <>Terminated

\* a call that returned although two of the pages it fetched yielded nothing
C9_Witness ==
    /\ pc = "done"
    /\ n >= 1
    /\ page_num = 3
    /\ Len(yielded) = 1

-----------------------------------------------------------------------------
\* Properties of the functions (PureSpec)

Returned(fn) == call.fn = fn /\ ret # Pending

\* the story row of a try_from call and the text of its story link
CallRow == call.arg[1]

CallLink == CallRow.storylink.val

\* the number of leading ASCII decimal digits of t
AsciiRun(t) ==
    CHOOSE k \in 0..Len(t) :
        /\ \A i \in 1..k : t[i] \in AsciiDigit
        /\ k = Len(t) \/ t[k + 1] \notin AsciiDigit

\* the first k characters of t
CharPrefix(t, k) == SubSeq(t, 1, Min(k, Len(t)))

\* t is s cut to its first TRUNCATE_LEN bytes (s itself when it has no more)
IsBytePrefix(t, s) ==
    /\ Len(t) <= Len(s)
    /\ t = SubSeq(s, 1, Len(t))
    /\ ByteLen(t) = Min(TRUNCATE_LEN, ByteLen(s))

\* the integer that the rank marker of the row renders
RenderedRank(tr) ==
    LET t == tr.rank.val.first_text.val
    IN  DecimalValue(SubSeq(t, 1, AsciiRun(t)))

C6_HiringPost ==
    (/\ Returned("try_from")
     /\ HasLinkWithTarget(CallRow)
     /\ AThing_rank(CallRow).tag = "Some"
     /\ Len(call.arg) = 2
     /\ call.arg[2] = HiringMeta)
    => /\ ret.tag = "Some"
       /\ ret.val.title # <<>>
       /\ ret.val.uri = CallLink.href.val
       /\ ret.val.rank = RenderedRank(CallRow)
       /\ ret.val.author = None
       /\ ret.val.points = None
       /\ ret.val.comments = None
       /\ [j \in 1..Len(Post_serialize(ret.val)) |-> Post_serialize(ret.val)[j][1]]
             = <<"title", "uri", "rank">>

\* C7 (as claimed): the parse returns nothing exactly when the text has no
\* leading ASCII digit, and otherwise the decimal value of its longest
\* leading run of ASCII digits.
C7_NumericPrefix ==
    (Returned("extract_number_prefix") /\ call.arg.first_text.tag = "Some") =>
        LET t == call.arg.first_text.val
            k == AsciiRun(t)
        IN  /\ ret = None <=> k = 0
            /\ k > 0 => ret = Some(DecimalValue(SubSeq(t, 1, k)))

\* C8 (as claimed): the truncation of title and author never fails, and the
\* Post's title and author are the first min(256, length) characters of the
\* story link's text and of the author's text.
C8_TruncatesCharacters ==
    (Returned("try_from") /\ HasLinkWithTarget(CallRow)) =>
        /\ ret.tag = "Panic" => ret.msg # "assertion failed: self.is_char_boundary(new_len)"
        /\ ret.tag = "Some" =>
            /\ ret.val.title = CharPrefix(CallLink.text, TRUNCATE_LEN)
            /\ LET a == AThing_line2(call.arg, 1).val.hnuser
               IN  a.tag = "Some" =>
                     ret.val.author = Some(CharPrefix(a.val, TRUNCATE_LEN))

====
